---- MODULE Spec2Model ----
(***************************************************************************)
(* Model of the cargo add command's request-construction layer                       *)
(* (crates/cargo-add/src/bin/cargo/commands/add.rs): exec, parse_section,  *)
(* parse_dependencies, resolve_bool_arg and parse_feature.                 *)
(*                                                                         *)
(* Strings that the code takes apart (crate tokens, feature lists) are     *)
(* sequences of one-character strings; strings it only copies (git URI,    *)
(* rename, target, ...) are TLA+ strings.  Option<T> is a sequence of      *)
(* length 0 (None) or 1 (Some(v)).                                         *)
(***************************************************************************)
EXTENDS Naturals, Sequences, FiniteSets

VARIABLES args, config, pc, section, packages, looked_up, parsed, handed, outcome

vars == <<args, config, pc, section, packages, looked_up, parsed, handed, outcome>>

\* ---------------------------------------------------------------- bounds
\* Longest token list, longest exhaustively enumerated feature string and
\* largest number of packages the selection flags can match.
MaxTokens == 3
MaxPayload == 3
MaxPackages == 2

\* ------------------------------------------------------------ Option<T>
None == <<>>
Some(v) == <<v>>
is_some(o) == o # <<>>
unwrap(o) == o[1]

\* ------------------------------------------------------- error messages
ErrMultiGit == "cannot specify multiple crates with path or git or vers"
ErrGitUnstable == "--git is unstable and requires -Z unstable-options"
ErrMultiRename == "cannot specify multiple crates with rename"
ErrMultiFeatures == "cannot specify multiple crates with features"
ErrFeatureUnstable == "+<feature> is unstable and requires -Z unstable-options"
ErrNoPrior == "+<feature> must be preceded by a pkgid"
ErrNoPackages == "no packages selected.  Please specify one with -p <PKGID>"
ErrManyPackages == "{len} packages selected.  Please specify one with -p <PKGID>"
\* Errors of the collaborators that exec and parse_dependencies propagate with the ? operator.
ErrWorkspace == "workspace or package flags could not be resolved"
ErrRegistry == "registry could not be resolved"
ErrAdd == "manifest could not be edited"

\* ----------------------------------------------------------- characters
Whitespace == {" "}
Comma == {","}

\* str::split(pat): every piece between separators, the empty ones included.
RECURSIVE SplitAcc(_, _, _, _)
SplitAcc(s, seps, cur, acc) ==
    IF s = <<>> THEN Append(acc, cur)
    ELSE IF Head(s) \in seps
         THEN SplitAcc(Tail(s), seps, <<>>, Append(acc, cur))
         ELSE SplitAcc(Tail(s), seps, Append(cur, Head(s)), acc)

split(s, seps) == SplitAcc(s, seps, <<>>, <<>>)

non_empty(piece) == piece # <<>>

\* str::split_whitespace: the non-empty pieces between whitespace runs.
split_whitespace(s) == SelectSeq(split(s, Whitespace), non_empty)

RECURSIVE flat_map_split_comma(_)
flat_map_split_comma(pieces) ==
    IF pieces = <<>> THEN <<>>
    ELSE split(Head(pieces), Comma) \o flat_map_split_comma(Tail(pieces))

\* Variant: the empty fragments are not filtered out.
parse_feature_keeps_empty(feature) ==
    flat_map_split_comma(split_whitespace(feature))

\* parse_feature: split_whitespace, flat_map split on commas, filter non-empty.
parse_feature(feature) ==
    SelectSeq(flat_map_split_comma(split_whitespace(feature)), non_empty)

InSeq(x, s) == \E i \in 1..Len(s) : s[i] = x

\* IndexSet::extend: a new value is appended, a known one keeps its place.
RECURSIVE extend(_, _)
extend(set, items) ==
    IF items = <<>> THEN set
    ELSE extend(IF InSeq(Head(items), set) THEN set ELSE Append(set, Head(items)),
                Tail(items))

RECURSIVE flat_map_parse_feature(_)
flat_map_parse_feature(values) ==
    IF values = <<>> THEN <<>>
    ELSE parse_feature(Head(values)) \o flat_map_parse_feature(Tail(values))

\* matches.values_of("features").map(|f| f.flat_map(parse_feature).collect::<IndexSet<_>>())
shared_features(matches) ==
    IF is_some(matches.features)
    THEN Some(extend(<<>>, flat_map_parse_feature(unwrap(matches.features))))
    ELSE None

\* Variant: the two arms of the match are exchanged.
resolve_bool_arg_swapped(yes, no) ==
    IF yes /\ ~no THEN Some(FALSE)
    ELSE IF ~yes /\ no THEN Some(TRUE)
    ELSE IF ~yes /\ ~no THEN None
    ELSE "unreachable"

\* Option<bool> from an enable / disable pair of flags.
resolve_bool_arg(yes, no) ==
    IF yes /\ ~no THEN Some(TRUE)
    ELSE IF ~yes /\ no THEN Some(FALSE)
    ELSE IF ~yes /\ ~no THEN None
    ELSE "unreachable"

default_features(matches) ==
    resolve_bool_arg(matches.default_features, matches.no_default_features)

optional(matches) ==
    resolve_bool_arg(matches.optional, matches.no_optional)

\* str::strip_prefix of the + marker
strip_prefix_plus(crate_spec) ==
    IF crate_spec # <<>> /\ Head(crate_spec) = "+" THEN Some(Tail(crate_spec)) ELSE None

\* ------------------------------------------------------------- results
Ok(v) == [ok |-> TRUE, val |-> v, err |-> ""]
Err(e) == [ok |-> FALSE, val |-> <<>>, err |-> e]

\* ------------------------------------------------------ parse_section
DepTable(kind, target) == [kind |-> kind, target |-> target]

\* The assert! on an empty target aborts the process.
DepTablePanic == [kind |-> "panic", target |-> None]

\* Variant: the build flag is not looked at.
parse_section_ignores_build(matches) ==
    LET kind == IF matches.dev THEN "Development" ELSE "Normal"
    IN  IF is_some(matches.target)
        THEN IF unwrap(matches.target) = ""
             THEN DepTablePanic
             ELSE DepTable(kind, Some(unwrap(matches.target)))
        ELSE DepTable(kind, None)

parse_section(matches) ==
    LET kind == IF matches.dev THEN "Development"
                ELSE IF matches.build THEN "Build"
                ELSE "Normal"
    IN  IF is_some(matches.target)
        THEN IF unwrap(matches.target) = ""
             THEN DepTablePanic
             ELSE DepTable(kind, Some(unwrap(matches.target)))
        ELSE DepTable(kind, None)

\* -------------------------------------------------- parse_dependencies
DepOp(crate_spec, matches, features, registry) ==
    [crate_spec |-> crate_spec,
     rename |-> matches.rename,
     features |-> features,
     default_features |-> default_features(matches),
     optional |-> optional(matches),
     registry |-> registry,
     git |-> matches.git,
     branch |-> matches.branch,
     rev |-> matches.rev,
     tag |-> matches.tag]

\* prior.features.get_or_insert_with(Default::default).extend(parse_feature(..))
attach_features(prior, payload) ==
    [prior EXCEPT !.features =
        Some(extend(IF is_some(prior.features) THEN unwrap(prior.features) ELSE <<>>,
                    parse_feature(payload)))]

\* Variant: an attachment token with no prior request is skipped, not refused.
RECURSIVE for_crate_spec_skips_orphan(_, _, _, _, _)
for_crate_spec_skips_orphan(crates, deps, cfg, matches, registry) ==
    IF crates = <<>> THEN Ok(deps)
    ELSE LET crate_spec == Head(crates)
             stripped == strip_prefix_plus(crate_spec)
         IN  IF is_some(stripped)
             THEN IF ~cfg.unstable_options THEN Err(ErrFeatureUnstable)
                  ELSE IF deps # <<>>
                  THEN for_crate_spec_skips_orphan(Tail(crates),
                                      [deps EXCEPT ![Len(deps)] =
                                          attach_features(deps[Len(deps)], unwrap(stripped))],
                                      cfg, matches, registry)
                  ELSE for_crate_spec_skips_orphan(Tail(crates), deps, cfg, matches, registry)
             ELSE for_crate_spec_skips_orphan(Tail(crates),
                                 Append(deps, DepOp(crate_spec, matches,
                                                    shared_features(matches), registry)),
                                 cfg, matches, registry)

\* Variant: an attachment token changes the first request, not the last.
RECURSIVE for_crate_spec_attaches_first(_, _, _, _, _)
for_crate_spec_attaches_first(crates, deps, cfg, matches, registry) ==
    IF crates = <<>> THEN Ok(deps)
    ELSE LET crate_spec == Head(crates)
             stripped == strip_prefix_plus(crate_spec)
         IN  IF is_some(stripped)
             THEN IF ~cfg.unstable_options THEN Err(ErrFeatureUnstable)
                  ELSE IF deps # <<>>
                  THEN for_crate_spec_attaches_first(Tail(crates),
                                      [deps EXCEPT ![1] =
                                          attach_features(deps[1], unwrap(stripped))],
                                      cfg, matches, registry)
                  ELSE Err(ErrNoPrior)
             ELSE for_crate_spec_attaches_first(Tail(crates),
                                 Append(deps, DepOp(crate_spec, matches,
                                                    shared_features(matches), registry)),
                                 cfg, matches, registry)

\* The loop over the tokens: deps is the vector built so far.
RECURSIVE for_crate_spec(_, _, _, _, _)
for_crate_spec(crates, deps, cfg, matches, registry) ==
    IF crates = <<>> THEN Ok(deps)
    ELSE LET crate_spec == Head(crates)
             stripped == strip_prefix_plus(crate_spec)
         IN  IF is_some(stripped)
             THEN IF ~cfg.unstable_options THEN Err(ErrFeatureUnstable)
                  ELSE IF deps # <<>>
                  THEN for_crate_spec(Tail(crates),
                                      [deps EXCEPT ![Len(deps)] =
                                          attach_features(deps[Len(deps)], unwrap(stripped))],
                                      cfg, matches, registry)
                  ELSE Err(ErrNoPrior)
             ELSE for_crate_spec(Tail(crates),
                                 Append(deps, DepOp(crate_spec, matches,
                                                    shared_features(matches), registry)),
                                 cfg, matches, registry)

\* crates.len() in the three ambiguity checks: the length of the raw token vector.
crates_len(matches) == Len(matches.crates)

\* Variant: the rename check is missing.
parse_dependencies_rename_unchecked(cfg, matches, registry_result) ==
    IF ~registry_result.ok THEN Err(registry_result.err)
    ELSE IF crates_len(matches) > 1 /\ is_some(matches.git) THEN Err(ErrMultiGit)
    ELSE IF is_some(matches.git) /\ ~cfg.unstable_options THEN Err(ErrGitUnstable)
    ELSE IF crates_len(matches) > 1 /\ is_some(shared_features(matches))
         THEN Err(ErrMultiFeatures)
    ELSE for_crate_spec(matches.crates, <<>>, cfg, matches, registry_result.val)

\* Variant: --git is not gated.
parse_dependencies_git_ungated(cfg, matches, registry_result) ==
    IF ~registry_result.ok THEN Err(registry_result.err)
    ELSE IF crates_len(matches) > 1 /\ is_some(matches.git) THEN Err(ErrMultiGit)
    ELSE IF crates_len(matches) > 1 /\ is_some(matches.rename) THEN Err(ErrMultiRename)
    ELSE IF crates_len(matches) > 1 /\ is_some(shared_features(matches))
         THEN Err(ErrMultiFeatures)
    ELSE for_crate_spec(matches.crates, <<>>, cfg, matches, registry_result.val)

\* registry_result is what matches.registry(config) returned.
parse_dependencies(cfg, matches, registry_result) ==
    IF ~registry_result.ok THEN Err(registry_result.err)
    ELSE IF crates_len(matches) > 1 /\ is_some(matches.git) THEN Err(ErrMultiGit)
    ELSE IF is_some(matches.git) /\ ~cfg.unstable_options THEN Err(ErrGitUnstable)
    ELSE IF crates_len(matches) > 1 /\ is_some(matches.rename) THEN Err(ErrMultiRename)
    ELSE IF crates_len(matches) > 1 /\ is_some(shared_features(matches))
         THEN Err(ErrMultiFeatures)
    ELSE for_crate_spec(matches.crates, <<>>, cfg, matches, registry_result.val)

\* ------------------------------------------------------------ the inputs
\* What clap's declarations let through to exec: crates is required, an
\* enable / disable pair overrides itself, optional conflicts with dev, the
\* section group and the git-ref group hold one argument each, a git ref
\* requires git, and target forbids the empty value.
cli(m) ==
    /\ Len(m.crates) >= 1
    /\ ~(m.default_features /\ m.no_default_features)
    /\ ~(m.optional /\ m.no_optional)
    /\ (m.optional \/ m.no_optional) => ~m.dev
    /\ Cardinality({g \in {"dev", "build", "target"} :
                        \/ g = "dev" /\ m.dev
                        \/ g = "build" /\ m.build
                        \/ g = "target" /\ is_some(m.target)}) <= 1
    /\ is_some(m.target) => unwrap(m.target) # ""
    /\ Cardinality({g \in {"branch", "tag", "rev"} :
                        \/ g = "branch" /\ is_some(m.branch)
                        \/ g = "tag" /\ is_some(m.tag)
                        \/ g = "rev" /\ is_some(m.rev)}) <= 1
    /\ (is_some(m.branch) \/ is_some(m.tag) \/ is_some(m.rev)) => is_some(m.git)

NoArgs ==
    [crates |-> <<>>, git |-> None, branch |-> None, rev |-> None, tag |-> None,
     rename |-> None, features |-> None,
     default_features |-> FALSE, no_default_features |-> FALSE,
     optional |-> FALSE, no_optional |-> FALSE,
     dev |-> FALSE, build |-> FALSE, target |-> None, dry_run |-> FALSE]

SeqsUpTo(S, lo, hi) == UNION {[1..k -> S] : k \in lo..hi}

CrateA == <<"a">>
CrateB == <<"b", "@", "1">>
PlusF == <<"+", "f">>
PlusGF == <<"+", "g", ",", "f">>
Tokens == {CrateA, CrateB, PlusF, PlusGF}

FeatureChars == {"f", "g", ",", " "}
FeatureStrings(n) == SeqsUpTo(FeatureChars, 0, n)

OptionOf(S) == {None} \cup {Some(v) : v \in S}
Flags == {<<FALSE, FALSE>>, <<TRUE, FALSE>>, <<FALSE, TRUE>>}
Sections == {<<FALSE, FALSE, None>>, <<TRUE, FALSE, None>>, <<FALSE, TRUE, None>>,
             <<FALSE, FALSE, Some("x86_64-unknown-linux-gnu")>>}
GitSources == {<<None, None, None, None>>,
               <<Some("uri"), None, None, None>>,
               <<Some("uri"), Some("main"), None, None>>,
               <<Some("uri"), None, Some("v1"), None>>,
               <<Some("uri"), None, None, Some("abc123")>>}

\* Every token list up to MaxTokens with each single-dependency modifier on or off.
TokenInputs ==
    {[NoArgs EXCEPT !.crates = c, !.git = g, !.rename = r, !.features = f] :
        c \in SeqsUpTo(Tokens, 1, MaxTokens),
        g \in OptionOf({"uri"}),
        r \in OptionOf({"alias"}),
        f \in OptionOf({<< <<"h">> >>})}

\* Every combination of the switches, the section and the git source.
SwitchInputs ==
    {[NoArgs EXCEPT !.crates = c,
                    !.default_features = d[1], !.no_default_features = d[2],
                    !.optional = o[1], !.no_optional = o[2],
                    !.dev = s[1], !.build = s[2], !.target = s[3],
                    !.git = g[1], !.branch = g[2], !.tag = g[3], !.rev = g[4],
                    !.dry_run = y] :
        c \in {<<CrateA>>, <<CrateA, PlusF>>},
        d \in Flags, o \in Flags, s \in Sections, g \in GitSources, y \in BOOLEAN}

\* Every feature string up to MaxPayload, as an attachment token and as a
\* --features value, alone and after each such string two characters shorter.
FeatureInputs ==
    {[NoArgs EXCEPT !.crates = <<CrateA, <<"+">> \o p>>] :
        p \in FeatureStrings(MaxPayload)}
    \cup
    {[NoArgs EXCEPT !.crates = <<CrateA, <<"+">> \o p, <<"+">> \o q>>] :
        p \in FeatureStrings(MaxPayload - 2),
        q \in FeatureStrings(MaxPayload)}
    \cup
    {[NoArgs EXCEPT !.crates = <<CrateA>>, !.features = Some(<<p>>)] :
        p \in FeatureStrings(MaxPayload)}
    \cup
    {[NoArgs EXCEPT !.crates = <<CrateA>>, !.features = Some(<<p, q>>)] :
        p \in FeatureStrings(MaxPayload - 2),
        q \in FeatureStrings(MaxPayload)}

ArgMatches == {m \in TokenInputs \cup SwitchInputs \cup FeatureInputs : cli(m)}

Config == [unstable_options : BOOLEAN]

\* What matches.registry(config) can return: an error, or no registry or the
\* name of one.
registry(failed, name) == IF failed THEN Err(ErrRegistry) ELSE Ok(name)

\* ---------------------------------------------------------------- exec
AddOptions(spec, dependencies, table, dry_run) ==
    [spec |-> spec, dependencies |-> dependencies, section |-> table, dry_run |-> dry_run]

Init ==
    /\ args \in ArgMatches
    /\ config \in Config
    /\ pc = "parse_section"
    /\ section = None
    /\ packages = None
    /\ looked_up = None
    /\ parsed = None
    /\ handed = <<>>
    /\ outcome = None

\* let dry_run = ..; let section = parse_section(args);
ExecParseSection ==
    /\ pc = "parse_section"
    /\ section' = Some(parse_section(args))
    /\ pc' = "select_package"
    /\ UNCHANGED <<args, config, packages, looked_up, parsed, handed, outcome>>

\* Variant: with several packages selected the first one is taken.
ExecSelectPackage_takes_first ==
    /\ pc = "select_package"
    /\ \E resolved \in BOOLEAN, n \in 0..MaxPackages :
        IF ~resolved
        THEN /\ outcome' = Some(Err(ErrWorkspace))
             /\ pc' = "done"
             /\ UNCHANGED packages
        ELSE /\ packages' = Some([i \in 1..n |-> i])
             /\ IF n = 0
                THEN outcome' = Some(Err(ErrNoPackages)) /\ pc' = "done"
                ELSE outcome' = outcome /\ pc' = "parse_dependencies"
    /\ UNCHANGED <<args, config, section, looked_up, parsed, handed>>

\* args.workspace(config)?, packages_from_flags()?, get_packages(&ws)? and the
\* match on packages.len(); n is the number of packages the flags select.
ExecSelectPackage ==
    /\ pc = "select_package"
    /\ \E resolved \in BOOLEAN, n \in 0..MaxPackages :
        IF ~resolved
        THEN /\ outcome' = Some(Err(ErrWorkspace))
             /\ pc' = "done"
             /\ UNCHANGED packages
        ELSE /\ packages' = Some([i \in 1..n |-> i])
             /\ IF n = 0
                THEN outcome' = Some(Err(ErrNoPackages)) /\ pc' = "done"
                ELSE IF n = 1
                THEN outcome' = outcome /\ pc' = "parse_dependencies"
                ELSE outcome' = Some(Err(ErrManyPackages)) /\ pc' = "done"
    /\ UNCHANGED <<args, config, section, looked_up, parsed, handed>>

\* Variant: the error of parse_dependencies is not propagated.
ExecParseDependencies_continues ==
    /\ pc = "parse_dependencies"
    /\ \E failed \in BOOLEAN, name \in OptionOf({"alt"}) :
        LET registry_result == registry(failed, name)
            result == parse_dependencies(config, args, registry_result)
        IN  /\ looked_up' = Some(registry_result)
            /\ parsed' = Some(result)
            /\ outcome' = outcome
            /\ pc' = "add"
    /\ UNCHANGED <<args, config, section, packages, handed>>

\* let dependencies = parse_dependencies(config, args)?;
ExecParseDependencies ==
    /\ pc = "parse_dependencies"
    /\ \E failed \in BOOLEAN, name \in OptionOf({"alt"}) :
        LET registry_result == registry(failed, name)
            result == parse_dependencies(config, args, registry_result)
        IN  /\ looked_up' = Some(registry_result)
            /\ parsed' = Some(result)
            /\ IF result.ok
               THEN outcome' = outcome /\ pc' = "add"
               ELSE outcome' = Some(Err(result.err)) /\ pc' = "done"
    /\ UNCHANGED <<args, config, section, packages, handed>>

\* let options = AddOptions {..}; add(&ws, &options)?; Ok(())
ExecAdd ==
    /\ pc = "add"
    /\ handed' = Append(handed, AddOptions(unwrap(packages)[1], unwrap(parsed).val,
                                           unwrap(section), args.dry_run))
    /\ \E applied \in BOOLEAN :
        outcome' = IF applied THEN Some(Ok(<<>>)) ELSE Some(Err(ErrAdd))
    /\ pc' = "done"
    /\ UNCHANGED <<args, config, section, packages, looked_up, parsed>>

Next ==
    \/ ExecParseSection
    \/ ExecSelectPackage
    \/ ExecParseDependencies
    \/ ExecAdd

Spec == Init /\ [][Next]_vars

\* ================================================================ claims
\* Vocabulary of the claims, stated on the raw input rather than through the
\* operators above.
IsAttachment(token) == Len(token) >= 1 /\ token[1] = "+"
IsCrate(token) == ~IsAttachment(token)
CrateTokens(m) == SelectSeq(m.crates, IsCrate)
HasAttachment(m) == \E k \in 1..Len(m.crates) : IsAttachment(m.crates[k])
AmbiguityErrors == {ErrMultiGit, ErrMultiRename, ErrMultiFeatures}
Returned == is_some(parsed)
Result == unwrap(parsed)
Succeeded == Returned /\ Result.ok
LookupOk == is_some(looked_up) /\ unwrap(looked_up).ok
SetOf(sq) == {sq[i] : i \in 1..Len(sq)}

\* C1 (as claimed): an input with at most one crate token never ends in one of
\* the three ambiguity errors, whatever attachment tokens and modifiers it has.
C1_NoAmbiguityUpToOneCrate ==
    (Returned /\ Len(CrateTokens(args)) <= 1) => Result.err \notin AmbiguityErrors

OnlyGit(m) == is_some(m.git) /\ ~is_some(m.rename) /\ ~is_some(m.features)
OnlyRename(m) == ~is_some(m.git) /\ is_some(m.rename) /\ ~is_some(m.features)
OnlyFeatures(m) == ~is_some(m.git) /\ ~is_some(m.rename) /\ is_some(m.features)

\* C2 (as claimed): with two or more crate tokens, git alone gives the git
\* ambiguity error, rename alone the rename one, shared features alone the
\* features one, whatever the other inputs; no request list is returned.
C2_AmbiguityAlways ==
    (Returned /\ Len(CrateTokens(args)) >= 2) =>
        /\ OnlyGit(args) => (~Result.ok /\ Result.err = ErrMultiGit)
        /\ OnlyRename(args) => (~Result.ok /\ Result.err = ErrMultiRename)
        /\ OnlyFeatures(args) => (~Result.ok /\ Result.err = ErrMultiFeatures)

\* C2 (amended): the same, provided the registry lookup that runs first
\* succeeded; when it failed, its error is the result.  No request list is
\* returned either way.
C2_AmbiguityAfterLookup ==
    (Returned /\ Len(CrateTokens(args)) >= 2
        /\ (OnlyGit(args) \/ OnlyRename(args) \/ OnlyFeatures(args))) =>
        /\ ~Result.ok
        /\ Result.val = <<>>
        /\ ~LookupOk => Result.err = ErrRegistry
        /\ (LookupOk /\ OnlyGit(args)) => Result.err = ErrMultiGit
        /\ (LookupOk /\ OnlyRename(args)) => Result.err = ErrMultiRename
        /\ (LookupOk /\ OnlyFeatures(args)) => Result.err = ErrMultiFeatures

C2_Witness ==
    /\ Returned /\ LookupOk
    /\ Len(CrateTokens(args)) >= 2
    /\ OnlyRename(args)
    /\ ~config.unstable_options
    /\ HasAttachment(args)
    /\ Result.err = ErrMultiRename

LeadingAttachment(m) == Len(m.crates) >= 1 /\ IsAttachment(m.crates[1])

\* C3 (as claimed): a leading attachment token always gives the sequencing
\* error, whatever the other inputs.
C3_LeadingAttachmentAlwaysSequencing ==
    (Returned /\ LeadingAttachment(args)) => (~Result.ok /\ Result.err = ErrNoPrior)

PreLoopCheckFires(m) ==
    Len(m.crates) > 1 /\ (is_some(m.git) \/ is_some(m.rename) \/ is_some(m.features))

\* C3 (amended): a leading attachment token never yields a request list; the
\* error is the sequencing error when the unstable gate is on, the registry
\* lookup succeeded and no check before the loop fired (the token list is
\* longer than one together with git, rename or shared features); with the
\* gate off and no earlier error it is the gating error.
C3_LeadingAttachmentFails ==
    (Returned /\ LeadingAttachment(args)) =>
        /\ ~Result.ok
        /\ (LookupOk /\ config.unstable_options /\ ~PreLoopCheckFires(args))
              => Result.err = ErrNoPrior
        /\ (LookupOk /\ ~config.unstable_options /\ ~PreLoopCheckFires(args)
              /\ ~is_some(args.git))
              => Result.err = ErrFeatureUnstable

C3_Witness ==
    /\ Returned /\ LookupOk /\ LeadingAttachment(args)
    /\ config.unstable_options
    /\ Len(args.crates) >= 2
    /\ Result.err = ErrNoPrior

\* Where the requests come from: the position of the i-th crate token, and the
\* attachment tokens that follow it before the next crate token.
CratesBefore(m, k) == Cardinality({j \in 1..k : IsCrate(m.crates[j])})
CratePosition(m, i) ==
    CHOOSE k \in 1..Len(m.crates) : IsCrate(m.crates[k]) /\ CratesBefore(m, k) = i
AttachmentsOf(m, i) ==
    {k \in 1..Len(m.crates) : IsAttachment(m.crates[k]) /\ CratesBefore(m, k) = i}
Payload(token) == SubSeq(token, 2, Len(token))
SharedNames(m) ==
    IF is_some(m.features)
    THEN UNION {SetOf(parse_feature(unwrap(m.features)[j])) : j \in 1..Len(unwrap(m.features))}
    ELSE {}

\* C4: on success there is exactly one request per crate token, in input order,
\* with crate_reference equal to the token; an attachment token adds no request
\* and changes only the features of the request of the nearest preceding crate
\* token; all other fields are the shared modifiers.
C4_OneRequestPerCrateInOrder ==
    Succeeded =>
        /\ Len(Result.val) = Len(CrateTokens(args))
        /\ \A i \in 1..Len(Result.val) :
            LET req == Result.val[i]
                mine == AttachmentsOf(args, i)
            IN  /\ req.crate_spec = args.crates[CratePosition(args, i)]
                /\ req.crate_spec = CrateTokens(args)[i]
                /\ req.rename = args.rename
                /\ req.git = args.git
                /\ req.branch = args.branch
                /\ req.tag = args.tag
                /\ req.rev = args.rev
                /\ req.registry = unwrap(looked_up).val
                /\ is_some(req.features) <=> (is_some(args.features) \/ mine # {})
                /\ is_some(req.features) =>
                     SetOf(unwrap(req.features)) =
                        SharedNames(args) \cup
                        UNION {SetOf(parse_feature(Payload(args.crates[k]))) : k \in mine}

\* serde +derive serde_json: two requests, the first with the feature, the
\* second with none.
C4_Witness ==
    /\ Succeeded
    /\ Len(args.crates) = 3
    /\ IsCrate(args.crates[1]) /\ IsAttachment(args.crates[2]) /\ IsCrate(args.crates[3])
    /\ Len(Result.val) = 2
    /\ Result.val[1].features = Some(<< <<"f">> >>)
    /\ Result.val[2].features = None

\* The text a request's features come from: the --features values, then the
\* payloads of its attachment tokens in token order, each ended by a blank.
RECURSIVE JoinWithBlank(_)
JoinWithBlank(strings) ==
    IF strings = <<>> THEN <<>>
    ELSE Head(strings) \o <<" ">> \o JoinWithBlank(Tail(strings))

RECURSIVE PayloadsFrom(_, _, _)
PayloadsFrom(m, i, k) ==
    IF k > Len(m.crates) THEN <<>>
    ELSE (IF k \in AttachmentsOf(m, i) THEN <<Payload(m.crates[k])>> ELSE <<>>)
         \o PayloadsFrom(m, i, k + 1)

SourceText(m, i) ==
    JoinWithBlank((IF is_some(m.features) THEN unwrap(m.features) ELSE <<>>)
                  \o PayloadsFrom(m, i, 1))

Separators == {" ", ","}
\* text[i..j] is a feature name: a longest stretch without blank or comma.
IsName(text, i, j) ==
    /\ i <= j
    /\ \A k \in i..j : text[k] \notin Separators
    /\ i = 1 \/ text[i - 1] \in Separators
    /\ j = Len(text) \/ text[j + 1] \in Separators
NameStarts(text, name) ==
    {i \in 1..Len(text) : \E j \in i..Len(text) : IsName(text, i, j) /\ SubSeq(text, i, j) = name}
Min(S) == CHOOSE x \in S : \A y \in S : x <= y
FirstSeen(text, name) == Min(NameStarts(text, name))
NamesIn(text) ==
    {SubSeq(text, r[1], r[2]) :
        r \in {q \in (1..Len(text)) \X (1..Len(text)) : IsName(text, q[1], q[2])}}

\* C5: a present features value has no empty string and no duplicate, holds
\* exactly the names of the shared feature list and of the request's attachment
\* tokens (split on blanks and commas, empty fragments dropped), and lists them
\* in first-seen order.
C5_FeaturesFirstSeenOrder ==
    Succeeded =>
        \A i \in 1..Len(Result.val) :
            is_some(Result.val[i].features) =>
                LET f == unwrap(Result.val[i].features)
                    text == SourceText(args, i)
                IN  /\ \A k \in 1..Len(f) : f[k] # <<>>
                    /\ \A k, l \in 1..Len(f) : k # l => f[k] # f[l]
                    /\ SetOf(f) = NamesIn(text)
                    /\ \A k, l \in 1..Len(f) :
                          k < l => FirstSeen(text, f[k]) < FirstSeen(text, f[l])

\* "+g" then "+f g": f is new and goes last, g keeps the place it has.
C5_Witness ==
    /\ Succeeded
    /\ args.crates = <<CrateA, <<"+", "g">>, <<"+", "f", " ", "g">>>>
    /\ Result.val[1].features = Some(<< <<"g">>, <<"f">> >>)

Normalized(enable, disable) ==
    CASE ~enable /\ ~disable -> None
      [] enable /\ ~disable -> Some(TRUE)
      [] ~enable /\ disable -> Some(FALSE)

\* C6: (false,false) gives None, (true,false) Some(true), (false,true)
\* Some(false), for the default-features pair and for the optional pair, and
\* every returned request carries these two values.
C6_SwitchesNormalized ==
    /\ resolve_bool_arg(FALSE, FALSE) = None
    /\ resolve_bool_arg(TRUE, FALSE) = Some(TRUE)
    /\ resolve_bool_arg(FALSE, TRUE) = Some(FALSE)
    /\ Succeeded =>
        \A i \in 1..Len(Result.val) :
            /\ Result.val[i].default_features =
                 Normalized(args.default_features, args.no_default_features)
            /\ Result.val[i].optional = Normalized(args.optional, args.no_optional)

C6_Witness ==
    /\ Succeeded
    /\ Len(Result.val) = 1
    /\ args.no_default_features /\ args.optional
    /\ Result.val[1].default_features = Some(FALSE)
    /\ Result.val[1].optional = Some(TRUE)

\* C7: the manifest-editing engine is invoked at most once, only after
\* package selection and parse_dependencies both succeeded, with the complete
\* request list; after a selection or validation error it is never invoked
\* and no request is handed over.
C7_EngineOnceAfterSuccess ==
    /\ Len(handed) <= 1
    /\ handed # <<>> =>
        /\ is_some(packages) /\ Len(unwrap(packages)) = 1
        /\ Succeeded
        /\ handed[1].dependencies = Result.val
        /\ handed[1].spec = unwrap(packages)[1]
        /\ handed[1].section = unwrap(section)
        /\ handed[1].dry_run = args.dry_run
    /\ (Returned /\ ~Result.ok) => handed = <<>>
    /\ (is_some(packages) /\ Len(unwrap(packages)) # 1) => handed = <<>>
    /\ (is_some(outcome) /\ ~unwrap(outcome).ok /\ unwrap(outcome).err # ErrAdd)
          => handed = <<>>

C7_Witness ==
    /\ Len(handed) = 1
    /\ Len(handed[1].dependencies) = 2
    /\ pc = "done"

\* C8: with 0 or more than one selected package the invocation ends with the
\* selection error before any dependency token is parsed, whatever the tokens
\* and modifiers are.
C8_SelectionErrorBeforeParsing ==
    (is_some(packages) /\ Len(unwrap(packages)) # 1) =>
        /\ pc = "done"
        /\ outcome = Some(Err(IF Len(unwrap(packages)) = 0
                              THEN ErrNoPackages ELSE ErrManyPackages))
        /\ looked_up = None
        /\ parsed = None
        /\ handed = <<>>

C8_Witness ==
    /\ is_some(packages) /\ Len(unwrap(packages)) > 1
    /\ LeadingAttachment(args)
    /\ PreLoopCheckFires(args)
    /\ ~config.unstable_options
    /\ outcome = Some(Err(ErrManyPackages))

\* C9: with the unstable gate off, no input with a git source or with an
\* attachment token at any position succeeds; a request list returned with the
\* gate off has git unset everywhere and one request per token.
C9_GateOffNeverUnstableSyntax ==
    (Returned /\ ~config.unstable_options) =>
        /\ (is_some(args.git) \/ HasAttachment(args)) => ~Result.ok
        /\ Result.ok =>
            /\ Len(Result.val) = Len(args.crates)
            /\ \A i \in 1..Len(Result.val) :
                /\ Result.val[i].git = None
                /\ Result.val[i].crate_spec = args.crates[i]
                /\ IsCrate(args.crates[i])

C9_Witness ==
    /\ Returned /\ LookupOk /\ ~config.unstable_options
    /\ Len(args.crates) = 3
    /\ IsCrate(args.crates[1]) /\ IsCrate(args.crates[2]) /\ IsAttachment(args.crates[3])
    /\ Result.err = ErrFeatureUnstable

\* C10: the section kind is Development with the dev flag, otherwise Build with
\* the build flag, otherwise Normal; the target is set exactly when one was
\* supplied, equals it, and is never the empty string.
C10_SectionDescriptor ==
    is_some(section) =>
        LET table == unwrap(section)
        IN  /\ table.kind = IF args.dev THEN "Development"
                            ELSE IF args.build THEN "Build" ELSE "Normal"
            /\ is_some(table.target) <=> is_some(args.target)
            /\ is_some(args.target) => unwrap(table.target) = unwrap(args.target)
            /\ table.target # Some("")

C10_Witness ==
    /\ is_some(section)
    /\ is_some(args.target)
    /\ unwrap(section) = DepTable("Normal", Some("x86_64-unknown-linux-gnu"))

====
